---------------------------- MODULE Spec2Model ----------------------------
(***************************************************************************)
(* A model of csvpg (github.com/wttw/csvpg): inference of a PostgreSQL     *)
(* table definition from the rows of a CSV file.                           *)
(*                                                                         *)
(* Go strings are modelled as sequences of one-character strings, so that  *)
(* the detectors, the quoting functions and the DDL text are computed      *)
(* character by character as the code computes them.  A regular            *)
(* expression source (Type.Pattern) is kept as an opaque TLA+ string: the  *)
(* code only tests it for emptiness and hands it to regexp.Compile.        *)
(***************************************************************************)
EXTENDS Integers, Sequences, FiniteSets, TLC

(***************************************************************************)
(* Characters and string helpers                                           *)
(***************************************************************************)
DigitSeq == <<"0", "1", "2", "3", "4", "5", "6", "7", "8", "9">>

LowerSeq == <<"a", "b", "c", "d", "e", "f", "g", "h", "i", "j", "k", "l", "m",
              "n", "o", "p", "q", "r", "s", "t", "u", "v", "w", "x", "y", "z">>

UpperSeq == <<"A", "B", "C", "D", "E", "F", "G", "H", "I", "J", "K", "L", "M",
              "N", "O", "P", "Q", "R", "S", "T", "U", "V", "W", "X", "Y", "Z">>

Range(f) == {f[i] : i \in DOMAIN f}

Digit == Range(DigitSeq)

Lower == Range(LowerSeq)

Upper == Range(UpperSeq)

Alpha == Lower \cup Upper

AlphaNum == Alpha \cup Digit

HexDigit == Digit \cup {"a", "b", "c", "d", "e", "f", "A", "B", "C", "D", "E", "F"}

\* strings.ToLower on one character
ToLowerChar(c) ==
    IF c \in Upper
    THEN LowerSeq[CHOOSE i \in DOMAIN UpperSeq : UpperSeq[i] = c]
    ELSE c

\* strings.ToLower
ToLower(s) == [i \in 1..Len(s) |-> ToLowerChar(s[i])]

\* the value of a decimal digit
DigitVal(c) == (CHOOSE i \in DOMAIN DigitSeq : DigitSeq[i] = c) - 1

AllIn(s, set) == \A i \in 1..Len(s) : s[i] \in set

\* s[from:] of Go (from is 0-based there, 1-based here)
Drop(s, n) == SubSeq(s, n + 1, Len(s))

Take(s, n) == SubSeq(s, 1, n)

HasPrefix(s, p) == Len(s) >= Len(p) /\ Take(s, Len(p)) = p

HasSuffix(s, p) == Len(s) >= Len(p) /\ Drop(s, Len(s) - Len(p)) = p

\* the least index i >= from with s[i] = c, or 0
IndexFrom(s, c, from) ==
    LET at == {i \in from..Len(s) : s[i] = c}
    IN  IF at = {} THEN 0 ELSE CHOOSE i \in at : \A j \in at : i <= j

\* the k-th least element of a set of numbers
Nth(S, k) == CHOOSE i \in S : Cardinality({j \in S : j < i}) = k - 1

\* strings.Split(s, c) for a one-character separator
SplitOn(s, c) ==
    LET at    == {i \in 1..Len(s) : s[i] = c}
        n     == Cardinality(at)
        lo(k) == IF k = 1 THEN 1 ELSE Nth(at, k - 1) + 1
        hi(k) == IF k = n + 1 THEN Len(s) ELSE Nth(at, k) - 1
    IN  [k \in 1..(n + 1) |-> SubSeq(s, lo(k), hi(k))]

\* strings.Join of the first n parts
RECURSIVE JoinTo(_, _, _)
JoinTo(parts, sep, n) ==
    IF n = 0 THEN <<>>
    ELSE IF n = 1 THEN parts[1]
    ELSE JoinTo(parts, sep, n - 1) \o sep \o parts[n]

\* strings.Join
Join(parts, sep) == JoinTo(parts, sep, Len(parts))

\* strings.Replace(s, <<c>>, <<c, c>>, -1) on the first n characters: every c doubled
RECURSIVE DoubleTo(_, _, _)
DoubleTo(s, c, n) ==
    IF n = 0 THEN <<>>
    ELSE DoubleTo(s, c, n - 1) \o (IF s[n] = c THEN <<c, c>> ELSE <<s[n]>>)

DoubleChar(s, c) == DoubleTo(s, c, Len(s))

\* a digit string without its leading zeros
StripZeros(d) ==
    LET nz == {i \in 1..Len(d) : d[i] # "0"}
    IN  IF nz = {} THEN <<>> ELSE SubSeq(d, Nth(nz, 1), Len(d))

\* lexicographic a <= b for digit strings of equal length
LexLE(a, b) ==
    LET diff == {i \in 1..Len(a) : a[i] # b[i]}
    IN  diff = {} \/ DigitVal(a[Nth(diff, 1)]) < DigitVal(b[Nth(diff, 1)])

\* numeric a <= b for digit strings of any length (no machine integer holds them)
DecLE(a, b) ==
    LET x == StripZeros(a)
        y == StripZeros(b)
    IN  \/ Len(x) < Len(y)
        \/ Len(x) = Len(y) /\ LexLE(x, y)

\* the value of the first n digits of a short digit string
RECURSIVE DecValTo(_, _)
DecValTo(d, n) == IF n = 0 THEN 0 ELSE 10 * DecValTo(d, n - 1) + DigitVal(d[n])

DecVal(d) == DecValTo(d, Len(d))

(***************************************************************************)
(* Library functions the detectors call (strconv, net, dateparse).  Each   *)
(* is computed on the characters of its argument.  Outside the repository, *)
(* they are modelled on the part of their input language the value         *)
(* alphabet below stays in: decimal and inf/nan floats (no hexadecimal     *)
(* floats), dotted-quad IPv4 and colon-hex IPv6 (no embedded IPv4, no      *)
(* zone), and the ISO date layouts of dateparse.                           *)
(***************************************************************************)
Int32Max == <<"2", "1", "4", "7", "4", "8", "3", "6", "4", "7">>

Int32MinAbs == <<"2", "1", "4", "7", "4", "8", "3", "6", "4", "8">>

Int64Max == <<"9", "2", "2", "3", "3", "7", "2", "0", "3", "6",
              "8", "5", "4", "7", "7", "5", "8", "0", "7">>

Int64MinAbs == <<"9", "2", "2", "3", "3", "7", "2", "0", "3", "6",
                 "8", "5", "4", "7", "7", "5", "8", "0", "8">>

\* strconv.ParseInt(s, 10, bits) returns no error
ParseIntOK(s, bits) ==
    LET signed == Len(s) > 0 /\ s[1] \in {"+", "-"}
        neg    == Len(s) > 0 /\ s[1] = "-"
        d      == IF signed THEN Tail(s) ELSE s
        lim    == IF bits = 32
                  THEN (IF neg THEN Int32MinAbs ELSE Int32Max)
                  ELSE (IF neg THEN Int64MinAbs ELSE Int64Max)
    IN  Len(d) > 0 /\ AllIn(d, Digit) /\ DecLE(d, lim)

\* the first decimal digits of the least value that rounds to +Inf
Float32Over == <<"3", "4", "0", "2", "8", "2", "3", "5", "6", "7", "7", "9", "7", "3", "3", "6", "6">>

Float64Over == <<"1", "7", "9", "7", "6", "9", "3", "1", "3", "4", "8", "6", "2", "3", "1", "5", "8">>

Float32MaxExp == 38

Float64MaxExp == 308

\* strconv caps a decimal exponent it reads
ExpCap == 10000

\* s padded with zeros on the right to length n
PadZeros(s, n) == [i \in 1..n |-> IF i <= Len(s) THEN s[i] ELSE "0"]

\* the significant digits sig (no leading zero), left-aligned, are below lim
SigBelow(sig, lim) ==
    LET n == IF Len(sig) > Len(lim) THEN Len(sig) ELSE Len(lim)
        a == PadZeros(sig, n)
        b == PadZeros(lim, n)
    IN  a # b /\ LexLE(a, b)

\* strconv.ParseFloat(s, bits) returns no error
ParseFloatOK(s, bits) ==
    LET low     == ToLower(s)
        signed  == Len(s) > 0 /\ s[1] \in {"+", "-"}
        body    == IF signed THEN Tail(low) ELSE low
        special == \/ body \in {<<"i", "n", "f">>, <<"i", "n", "f", "i", "n", "i", "t", "y">>}
                   \/ low = <<"n", "a", "n">>
        ei      == IndexFrom(body, "e", 1)
        mant    == IF ei = 0 THEN body ELSE Take(body, ei - 1)
        etxt    == IF ei = 0 THEN <<>> ELSE Drop(body, ei)
        esigned == Len(etxt) > 0 /\ etxt[1] \in {"+", "-"}
        eneg    == Len(etxt) > 0 /\ etxt[1] = "-"
        edig    == IF esigned THEN Tail(etxt) ELSE etxt
        di      == IndexFrom(mant, ".", 1)
        ipart   == IF di = 0 THEN mant ELSE Take(mant, di - 1)
        fpart   == IF di = 0 THEN <<>> ELSE Drop(mant, di)
        all     == ipart \o fpart
        syntax  == /\ AllIn(all, Digit) /\ Len(all) > 0
                   /\ (ei # 0 => Len(edig) > 0 /\ AllIn(edig, Digit))
        sig     == StripZeros(all)
        eabs    == IF Len(StripZeros(edig)) > 4 THEN ExpCap
                   ELSE IF DecVal(StripZeros(edig)) > ExpCap THEN ExpCap
                   ELSE DecVal(StripZeros(edig))
        e       == IF eneg THEN 0 - eabs ELSE eabs
        \* the decimal exponent of the first significant digit
        sci     == Len(ipart) - (Len(all) - Len(sig)) - 1 + e
        maxexp  == IF bits = 32 THEN Float32MaxExp ELSE Float64MaxExp
        over    == IF bits = 32 THEN Float32Over ELSE Float64Over
        inrange == \/ Len(sig) = 0
                   \/ sci < maxexp
                   \/ sci = maxexp /\ SigBelow(sig, over)
    IN  special \/ (syntax /\ inrange)

\* one field of a dotted quad: decimal, no leading zero, at most 255
OctetOK(f) ==
    /\ Len(f) \in 1..3
    /\ AllIn(f, Digit)
    /\ (Len(f) > 1 => f[1] # "0")
    /\ DecVal(f) <= 255

HexVal(c) ==
    IF c \in Digit THEN DigitVal(c)
    ELSE 9 + (CHOOSE i \in 1..6 : LowerSeq[i] = ToLowerChar(c))

RECURSIVE HexValTo(_, _)
HexValTo(g, n) == IF n = 0 THEN 0 ELSE 16 * HexValTo(g, n - 1) + HexVal(g[n])

HexGroupVal(g) == HexValTo(g, Len(g))

HexGroupOK(g) == Len(g) \in 1..4 /\ AllIn(g, HexDigit)

\* the two bytes of each 16-bit group, in order
GroupBytes(gs) ==
    [i \in 1..(2 * Len(gs)) |->
        IF i % 2 = 1 THEN HexGroupVal(gs[(i + 1) \div 2]) \div 256
        ELSE HexGroupVal(gs[i \div 2]) % 256]

\* the least index i with s[i] = s[i+1] = ":", or 0
DoubleColon(s) ==
    LET at == {i \in 1..(Len(s) - 1) : s[i] = ":" /\ s[i + 1] = ":"}
    IN  IF at = {} THEN 0 ELSE Nth(at, 1)

V4InV6Prefix == <<0, 0, 0, 0, 0, 0, 0, 0, 0, 0, 255, 255>>

\* net.ParseIP: the 16-byte form of the address, or <<>> (nil)
ParseIP(s) ==
    LET q == SplitOn(s, ".")
        v4 == Len(q) = 4 /\ \A i \in 1..4 : OctetOK(q[i])
        dc == DoubleColon(s)
        left  == IF dc = 0 THEN <<>> ELSE Take(s, dc - 1)
        right == IF dc = 0 THEN <<>> ELSE Drop(s, dc + 1)
        lg == IF Len(left) = 0 THEN <<>> ELSE SplitOn(left, ":")
        rg == IF Len(right) = 0 THEN <<>> ELSE SplitOn(right, ":")
        full == SplitOn(s, ":")
        v6full == dc = 0 /\ Len(full) = 8 /\ \A i \in 1..8 : HexGroupOK(full[i])
        v6short == /\ dc # 0
                   /\ Len(lg) + Len(rg) <= 7
                   /\ \A i \in 1..Len(lg) : HexGroupOK(lg[i])
                   /\ \A i \in 1..Len(rg) : HexGroupOK(rg[i])
        zeros == [i \in 1..(2 * (8 - Len(lg) - Len(rg))) |-> 0]
    IN  IF v4 THEN V4InV6Prefix \o <<DecVal(q[1]), DecVal(q[2]), DecVal(q[3]), DecVal(q[4])>>
        ELSE IF v6full THEN GroupBytes(full)
        ELSE IF v6short THEN GroupBytes(lg) \o zeros \o GroupBytes(rg)
        ELSE <<>>

IsIPv4Text(s) == Len(SplitOn(s, ".")) = 4 /\ ParseIP(s) # <<>>

RECURSIVE Pow2(_)
Pow2(n) == IF n = 0 THEN 1 ELSE 2 * Pow2(n - 1)

\* byte i (from 1) of net.CIDRMask(ones, 8 * len)
MaskByte(ones, i) ==
    LET k == ones - 8 * (i - 1)
    IN  IF k >= 8 THEN 255
        ELSE IF k <= 0 THEN 0
        ELSE 256 - Pow2(8 - k)

\* x & m for a byte x and a mask byte m of the form 1..10..0
AndByte(x, m) == (x \div (256 - m)) * (256 - m)

\* IP.Mask: an IPv4 mask applied to a 16-byte IPv4 address gives 4 bytes
MaskIP(ip, ones, masklen) ==
    LET src == IF masklen = 4 /\ Len(ip) = 16 /\ Take(ip, 12) = V4InV6Prefix
               THEN Drop(ip, 12) ELSE ip
    IN  [i \in 1..Len(src) |-> AndByte(src[i], MaskByte(ones, i))]

\* net.ParseCIDR: [ok, ip, net]; ip is the 16-byte address, net the
\* IPNet.IP of the result
ParseCIDR(s) ==
    LET i      == IndexFrom(s, "/", 1)
        addr   == IF i = 0 THEN <<>> ELSE Take(s, i - 1)
        mask   == IF i = 0 THEN <<>> ELSE Drop(s, i)
        ip     == ParseIP(addr)
        iplen  == IF IsIPv4Text(addr) THEN 4 ELSE 16
        digits == Len(mask) \in 1..3 /\ AllIn(mask, Digit)
        ok     == i # 0 /\ ip # <<>> /\ digits /\ DecVal(mask) <= 8 * iplen
    IN  IF ok THEN [ok |-> TRUE, ip |-> ip, net |-> MaskIP(ip, DecVal(mask), iplen)]
        ELSE [ok |-> FALSE, ip |-> <<>>, net |-> <<>>]

DaysIn(y, m) ==
    IF m \in {4, 6, 9, 11} THEN 30
    ELSE IF m = 2 THEN (IF (y % 4 = 0 /\ y % 100 # 0) \/ y % 400 = 0 THEN 29 ELSE 28)
    ELSE 31

\* dateparse.ParseAny on the layouts 2006-01-02 and 2006-01-02 15:04:05:
\* [ok, hour, minute, second]
ParseAny(s) ==
    LET dt == SplitOn(s, " ")
        d  == SplitOn(dt[1], "-")
        t  == IF Len(dt) = 2 THEN SplitOn(dt[2], ":") ELSE <<>>
        dateOK == /\ Len(d) = 3
                  /\ Len(d[1]) = 4 /\ Len(d[2]) = 2 /\ Len(d[3]) = 2
                  /\ \A i \in 1..3 : AllIn(d[i], Digit)
                  /\ DecVal(d[2]) \in 1..12
                  /\ DecVal(d[3]) >= 1
                  /\ DecVal(d[3]) <= DaysIn(DecVal(d[1]), DecVal(d[2]))
        timeOK == /\ Len(t) = 3
                  /\ \A i \in 1..3 : Len(t[i]) = 2 /\ AllIn(t[i], Digit)
                  /\ DecVal(t[1]) <= 23 /\ DecVal(t[2]) <= 59 /\ DecVal(t[3]) <= 59
    IN  IF Len(dt) = 1 /\ dateOK
        THEN [ok |-> TRUE, hour |-> 0, minute |-> 0, second |-> 0]
        ELSE IF Len(dt) = 2 /\ dateOK /\ timeOK
        THEN [ok |-> TRUE, hour |-> DecVal(t[1]), minute |-> DecVal(t[2]), second |-> DecVal(t[3])]
        ELSE [ok |-> FALSE, hour |-> 0, minute |-> 0, second |-> 0]


(***************************************************************************)
(* The regular expressions of the source, each matched as written          *)
(***************************************************************************)
\* ^[A-Za-z][A-Za-z0-9_]*$
enumRe(s) == Len(s) >= 1 /\ s[1] \in Alpha /\ AllIn(Tail(s), AlphaNum \cup {"_"})

\* ^[a-z][a-z0-9_]*$
needsQuoteRe(s) == Len(s) >= 1 /\ s[1] \in Lower /\ AllIn(Tail(s), Lower \cup Digit \cup {"_"})

NumericPattern == "^[+-]?[0-9]+(?:\\.[0-9]+)?(?:[eE][+-]?[0-9]+)?$"

BooleanPattern == "^(?i:t|tr|tru|true|y|ye|yes|on|1|f|fa|fal|fals|false|n|no|of|off|0)$"

ByteaPattern == "^\\\\x(?i:[0-9a-f][0-9a-f])*$"

UuidPattern == "^(?i:[0-9a-f]{8}-[0-9a-f]{4}-[0-9a-f]{4}-[0-9a-f]{4}-[0-9a-f]{12}|\\{[0-9a-f]{8}-[0-9a-f]{4}-[0-9a-f]{4}-[0-9a-f]{4}-[0-9a-f]{12}\\})$"

MacaddrPattern == "^(?i:(?:[0-9a-f]{2}:){5}[0-9a-f]{2}|(?:[0-9a-f]{2}-){5}[0-9a-f]{2})$"

\* a pattern regexp.Compile rejects (missing closing parenthesis)
BadPattern == "("

\* [0-9]+
Digits1(s) == Len(s) >= 1 /\ AllIn(s, Digit)

MatchNumeric(s) ==
    LET signed  == Len(s) > 0 /\ s[1] \in {"+", "-"}
        body    == IF signed THEN Tail(s) ELSE s
        ei      == IF IndexFrom(body, "e", 1) = 0 THEN IndexFrom(body, "E", 1)
                   ELSE IF IndexFrom(body, "E", 1) = 0 THEN IndexFrom(body, "e", 1)
                   ELSE IF IndexFrom(body, "e", 1) < IndexFrom(body, "E", 1)
                        THEN IndexFrom(body, "e", 1) ELSE IndexFrom(body, "E", 1)
        mant    == IF ei = 0 THEN body ELSE Take(body, ei - 1)
        etxt    == IF ei = 0 THEN <<>> ELSE Drop(body, ei)
        edig    == IF Len(etxt) > 0 /\ etxt[1] \in {"+", "-"} THEN Tail(etxt) ELSE etxt
        di      == IndexFrom(mant, ".", 1)
    IN  /\ (IF di = 0 THEN Digits1(mant)
            ELSE Digits1(Take(mant, di - 1)) /\ Digits1(Drop(mant, di)))
        /\ (ei # 0 => Digits1(edig))

BooleanTokens ==
    { <<"t">>,
      <<"t", "r">>,
      <<"t", "r", "u">>,
      <<"t", "r", "u", "e">>,
      <<"y">>,
      <<"y", "e">>,
      <<"y", "e", "s">>,
      <<"o", "n">>,
      <<"1">>,
      <<"f">>,
      <<"f", "a">>,
      <<"f", "a", "l">>,
      <<"f", "a", "l", "s">>,
      <<"f", "a", "l", "s", "e">>,
      <<"n">>,
      <<"n", "o">>,
      <<"o", "f">>,
      <<"o", "f", "f">>,
      <<"0">> }

MatchBoolean(s) == ToLower(s) \in BooleanTokens

MatchBytea(s) ==
    /\ Len(s) >= 2 /\ s[1] = "\\" /\ s[2] = "x"
    /\ (Len(s) - 2) % 2 = 0
    /\ AllIn(Drop(s, 2), HexDigit)

\* hex groups of the given lengths joined by sep
HexGroups(s, sep, lens) ==
    LET g == SplitOn(s, sep)
    IN  Len(g) = Len(lens) /\ \A i \in 1..Len(g) : Len(g[i]) = lens[i] /\ AllIn(g[i], HexDigit)

MatchUuid(s) ==
    \/ HexGroups(s, "-", <<8, 4, 4, 4, 12>>)
    \/ /\ Len(s) >= 2 /\ s[1] = "{" /\ s[Len(s)] = "}"
       /\ HexGroups(SubSeq(s, 2, Len(s) - 1), "-", <<8, 4, 4, 4, 12>>)

MatchMacaddr(s) ==
    \/ HexGroups(s, ":", <<2, 2, 2, 2, 2, 2>>)
    \/ HexGroups(s, "-", <<2, 2, 2, 2, 2, 2>>)

\* regexp.Compile(p) returns no error
Compiles(p) == p \in {NumericPattern, BooleanPattern, ByteaPattern, UuidPattern, MacaddrPattern}

\* re.MatchString(s) for the compiled pattern p
MatchString(p, s) ==
    CASE p = NumericPattern -> MatchNumeric(s)
      [] p = BooleanPattern -> MatchBoolean(s)
      [] p = ByteaPattern   -> MatchBytea(s)
      [] p = UuidPattern    -> MatchUuid(s)
      [] p = MacaddrPattern -> MatchMacaddr(s)

(***************************************************************************)
(* The type catalog of NewConfig                                           *)
(***************************************************************************)
T_integer == <<"i", "n", "t", "e", "g", "e", "r">>

T_bigint == <<"b", "i", "g", "i", "n", "t">>

T_real == <<"r", "e", "a", "l">>

T_double == <<"d", "o", "u", "b", "l", "e">>

T_numeric == <<"n", "u", "m", "e", "r", "i", "c">>

T_boolean == <<"b", "o", "o", "l", "e", "a", "n">>

T_bytea == <<"b", "y", "t", "e", "a">>

T_uuid == <<"u", "u", "i", "d">>

T_cidr == <<"c", "i", "d", "r">>

T_inet == <<"i", "n", "e", "t">>

T_macaddr == <<"m", "a", "c", "a", "d", "d", "r">>

T_date == <<"d", "a", "t", "e">>

T_timestamptz == <<"t", "i", "m", "e", "s", "t", "a", "m", "p", "t", "z">>

T_enum == <<"e", "n", "u", "m">>

T_text == <<"t", "e", "x", "t">>

\* the Isa closures of NewConfig, named by their type
Isa(fn, s) ==
    CASE fn = "integer"     -> ParseIntOK(s, 32)
      [] fn = "bigint"      -> ParseIntOK(s, 64)
      [] fn = "real"        -> ParseFloatOK(s, 32)
      [] fn = "double"      -> ParseFloatOK(s, 64)
      [] fn = "cidr"        -> ParseCIDR(s).ok /\ ParseCIDR(s).ip = ParseCIDR(s).net
      [] fn = "inet"        -> ParseIP(s) # <<>> \/ ParseCIDR(s).ok
      [] fn = "date"        -> /\ ParseAny(s).ok
                               /\ ParseAny(s).hour = 0
                               /\ ParseAny(s).minute = 0
                               /\ ParseAny(s).second = 0
      [] fn = "timestamptz" -> ParseAny(s).ok
      [] fn = "text"        -> TRUE

IsaType(name, fn) == [Name |-> name, Pattern |-> "", Isa |-> fn, Handle |-> "nil", flag |-> 0]

PatternType(name, p) == [Name |-> name, Pattern |-> p, Isa |-> "nil", Handle |-> "nil", flag |-> 0]

HandleType(name, h) == [Name |-> name, Pattern |-> "", Isa |-> "nil", Handle |-> h, flag |-> 0]

DefaultTypes ==
    << IsaType(T_integer, "integer"),
       IsaType(T_bigint, "bigint"),
       IsaType(T_real, "real"),
       IsaType(T_double, "double"),
       PatternType(T_numeric, NumericPattern),
       PatternType(T_boolean, BooleanPattern),
       PatternType(T_bytea, ByteaPattern),
       PatternType(T_uuid, UuidPattern),
       IsaType(T_cidr, "cidr"),
       IsaType(T_inet, "inet"),
       PatternType(T_macaddr, MacaddrPattern),
       IsaType(T_date, "date"),
       IsaType(T_timestamptz, "timestamptz"),
       HandleType(T_enum, "enum"),
       IsaType(T_text, "text") >>

DefaultEnumLength == 10

DefaultEnumCount == 20


(***************************************************************************)
(* Config.tidy                                                             *)
(***************************************************************************)
MyTable == <<"m", "y", "_", "t", "a", "b", "l", "e">>

\* tidy passing over the types named in Exclude
RECURSIVE TidyFromSkipExcluded(_, _, _)
TidyFromSkipExcluded(c, i, flag) ==
    IF i > Len(c.Types) THEN [err |-> "", Config |-> c]
    ELSE LET v       == c.Types[i]
             flagged == [c EXCEPT !.Types[i].flag = flag]
         IN  IF v.Handle # "nil" THEN TidyFromSkipExcluded(flagged, i + 1, 2 * flag)
             ELSE IF \E k \in DOMAIN c.Exclude : c.Exclude[k] = v.Name
             THEN TidyFromSkipExcluded(flagged, i + 1, 2 * flag)
             ELSE IF v.Isa = "nil"
             THEN IF v.Pattern = "" THEN [err |-> "NoLogic", Config |-> flagged]
                  ELSE IF ~Compiles(v.Pattern) THEN [err |-> "InvalidPattern", Config |-> flagged]
                  ELSE TidyFromSkipExcluded([flagged EXCEPT !.Types[i].Handle = "matcher"], i + 1, 2 * flag)
             ELSE TidyFromSkipExcluded([flagged EXCEPT !.Types[i].Handle = "wrapper"], i + 1, 2 * flag)

\* the loop of tidy over c.Types from type i on, flag being the next flag to
\* give out: [err, Config], err being "" for nil
RECURSIVE TidyFrom(_, _, _)
TidyFrom(c, i, flag) ==
    IF i > Len(c.Types) THEN [err |-> "", Config |-> c]
    ELSE LET v       == c.Types[i]
             flagged == [c EXCEPT !.Types[i].flag = flag]
         IN  IF v.Handle # "nil" THEN TidyFrom(flagged, i + 1, 2 * flag)
             ELSE IF v.Isa = "nil"
             THEN IF v.Pattern = "" THEN [err |-> "NoLogic", Config |-> flagged]
                  ELSE IF ~Compiles(v.Pattern) THEN [err |-> "InvalidPattern", Config |-> flagged]
                  ELSE TidyFrom([flagged EXCEPT !.Types[i].Handle = "matcher"], i + 1, 2 * flag)
             ELSE TidyFrom([flagged EXCEPT !.Types[i].Handle = "wrapper"], i + 1, 2 * flag)

\* [err, Config]
tidy(c) ==
    LET r == TidyFrom(c, 1, 1)
    IN  [err    |-> r.err,
         Config |-> [r.Config EXCEPT !.TableName = IF r.err = "" /\ @ = <<>> THEN MyTable ELSE @]]

(***************************************************************************)
(* Bit sets of type flags (every flag is a power of two)                   *)
(***************************************************************************)
\* flag & mask != 0
HasFlag(mask, flag) == flag > 0 /\ (mask \div flag) % 2 = 1

\* mask | flag
OrFlag(mask, flag) == IF HasFlag(mask, flag) \/ flag = 0 THEN mask ELSE mask + flag

\* mask &^ flag
AndNotFlag(mask, flag) == IF HasFlag(mask, flag) THEN mask - flag ELSE mask

(***************************************************************************)
(* The set of types a column starts with                                   *)
(***************************************************************************)
\* the loop of "Initialize our state for the scan" with continue in place of
\* continue TYPE: the list Exclude has no effect
RECURSIVE AllPossibleNoExclude(_, _, _)
AllPossibleNoExclude(cfg, i, all) ==
    IF i > Len(cfg.Types) THEN all
    ELSE LET v    == cfg.Types[i]
             next == IF v.Name = T_enum /\ cfg.EnumCount = 0 THEN all
                     ELSE OrFlag(all, v.flag)
         IN  CHOOSE out \in {AllPossibleNoExclude(cfg, i + 1, a) : a \in {next}} : TRUE

\* the loop of "Initialize our state for the scan", from type i on
RECURSIVE AllPossibleFrom(_, _, _)
AllPossibleFrom(cfg, i, all) ==
    IF i > Len(cfg.Types) THEN all
    ELSE LET v    == cfg.Types[i]
             next == IF v.Name = T_enum /\ cfg.EnumCount = 0 THEN all
                     ELSE IF \E k \in DOMAIN cfg.Exclude : cfg.Exclude[k] = v.Name THEN all
                     ELSE OrFlag(all, v.flag)
         IN  CHOOSE out \in {AllPossibleFrom(cfg, i + 1, a) : a \in {next}} : TRUE

allPossibleTypes(cfg) == AllPossibleFrom(cfg, 1, 0)

(***************************************************************************)
(* Detection: the Handle of a type, and handleRow                          *)
(***************************************************************************)
\* the Handle of the enum type with < for <=
EnumHandleStrict(s, col, cfg, enums) ==
    IF Len(s) = 0 \/ Len(s) > cfg.EnumLength THEN [ok |-> FALSE, Enums |-> enums]
    ELSE IF ~enumRe(s) THEN [ok |-> FALSE, Enums |-> enums]
    ELSE IF s \in enums[col] THEN [ok |-> TRUE, Enums |-> enums]
    ELSE LET added == [enums EXCEPT ![col] = @ \cup {s}]
         IN  [ok |-> Cardinality(added[col]) < cfg.EnumCount, Enums |-> added]

\* the Handle of the enum type testing for a full map before the lookup
EnumHandleFullFirst(s, col, cfg, enums) ==
    IF Len(s) = 0 \/ Len(s) > cfg.EnumLength THEN [ok |-> FALSE, Enums |-> enums]
    ELSE IF ~enumRe(s) THEN [ok |-> FALSE, Enums |-> enums]
    ELSE IF Cardinality(enums[col]) >= cfg.EnumCount THEN [ok |-> FALSE, Enums |-> enums]
    ELSE [ok |-> TRUE, Enums |-> [enums EXCEPT ![col] = @ \cup {s}]]

\* the Handle of enum recording the value before it is validated
EnumHandleAddFirst(s, col, cfg, enums) ==
    LET added == [enums EXCEPT ![col] = @ \cup {s}]
    IN  IF Len(s) = 0 \/ Len(s) > cfg.EnumLength THEN [ok |-> FALSE, Enums |-> added]
        ELSE IF ~enumRe(s) THEN [ok |-> FALSE, Enums |-> added]
        ELSE [ok |-> Cardinality(added[col]) <= cfg.EnumCount, Enums |-> added]

\* the Handle of the enum type: [ok, Enums]
EnumHandle(s, col, cfg, enums) ==
    IF Len(s) = 0 \/ Len(s) > cfg.EnumLength THEN [ok |-> FALSE, Enums |-> enums]
    ELSE IF ~enumRe(s) THEN [ok |-> FALSE, Enums |-> enums]
    ELSE IF s \in enums[col] THEN [ok |-> TRUE, Enums |-> enums]
    ELSE LET added == [enums EXCEPT ![col] = @ \cup {s}]
         IN  [ok |-> Cardinality(added[col]) <= cfg.EnumCount, Enums |-> added]

\* tp.Handle(s, col, it): [ok, Enums]
CallHandle(tp, s, col, cfg, enums) ==
    CASE tp.Handle = "enum"    -> EnumHandle(s, col, cfg, enums)
      [] tp.Handle = "matcher" -> [ok |-> MatchString(tp.Pattern, s), Enums |-> enums]
      [] tp.Handle = "wrapper" -> [ok |-> Isa(tp.Isa, s), Enums |-> enums]

\* In the loops below, CHOOSE out \in {F(x) : x \in {e}} : TRUE is F(e) with
\* e evaluated once, as the loop variable of the code is.

\* one turn of the loop over the types without the test tp.flag&possibles != 0
TypeStepAlways(cfg, v, col, i, st) ==
    LET tp == cfg.Types[i]
    IN  CHOOSE out \in
            { [possibles |-> IF r.ok THEN st.possibles
                             ELSE AndNotFlag(st.possibles, tp.flag),
               Enums     |-> r.Enums,
               calls     |-> st.calls \cup {tp.Name}]
              : r \in {CallHandle(tp, v, col, cfg, st.Enums)} } : TRUE

\* one turn of the loop over the types for one value.  st is
\* [possibles, Enums, calls], calls being the names of the types whose Handle ran
TypeStep(cfg, v, col, i, st) ==
    LET tp == cfg.Types[i]
    IN  IF HasFlag(st.possibles, tp.flag)
        THEN CHOOSE out \in
                 { [possibles |-> IF r.ok THEN st.possibles
                                  ELSE AndNotFlag(st.possibles, tp.flag),
                    Enums     |-> r.Enums,
                    calls     |-> st.calls \cup {tp.Name}]
                   : r \in {CallHandle(tp, v, col, cfg, st.Enums)} } : TRUE
        ELSE st

\* the loop over the types for one value, from type i on
RECURSIVE TypeLoop(_, _, _, _, _)
TypeLoop(cfg, v, col, i, st) ==
    IF i > Len(cfg.Types) THEN st
    ELSE CHOOSE out \in {TypeLoop(cfg, v, col, i + 1, next)
                         : next \in {TypeStep(cfg, v, col, i, st)}} : TRUE

\* the body of the loop of handleRow starting from every type at each row
FieldStepFresh(cfg, rw, col, st) ==
    IF rw[col] = <<>> /\ cfg.NotNull
    THEN [st EXCEPT !.Null[col] = TRUE]
    ELSE CHOOSE out \in
             { [st EXCEPT !.PossibleTypes[col] = r.possibles,
                          !.Enums = r.Enums,
                          !.calls[col] = r.calls]
               : r \in {TypeLoop(cfg, rw[col], col, 1,
                                 [possibles |-> allPossibleTypes(cfg),
                                  Enums     |-> st.Enums,
                                  calls     |-> {}])} } : TRUE

\* the body of the loop of handleRow without the continue after c.Null[col] = true
FieldStepNoContinue(cfg, rw, col, st) ==
    CHOOSE out \in
        { [st EXCEPT !.PossibleTypes[col] = r.possibles,
                     !.Enums = r.Enums,
                     !.Null[col] = @ \/ (rw[col] = <<>> /\ cfg.NotNull),
                     !.calls[col] = r.calls]
          : r \in {TypeLoop(cfg, rw[col], col, 1,
                            [possibles |-> st.PossibleTypes[col],
                             Enums     |-> st.Enums,
                             calls     |-> {}])} } : TRUE

\* the body of the loop of handleRow for field col.  st is
\* [PossibleTypes, Enums, Null, calls]; calls[col] is the set of types whose
\* Handle ran for this row's field col
FieldStep(cfg, rw, col, st) ==
    IF rw[col] = <<>> /\ cfg.NotNull
    THEN [st EXCEPT !.Null[col] = TRUE]
    ELSE CHOOSE out \in
             { [st EXCEPT !.PossibleTypes[col] = r.possibles,
                          !.Enums = r.Enums,
                          !.calls[col] = r.calls]
               : r \in {TypeLoop(cfg, rw[col], col, 1,
                                 [possibles |-> st.PossibleTypes[col],
                                  Enums     |-> st.Enums,
                                  calls     |-> {}])} } : TRUE

\* handleRow from column col on
RECURSIVE RowLoop(_, _, _, _)
RowLoop(cfg, rw, col, st) ==
    IF col > Len(rw) THEN st
    ELSE CHOOSE out \in {RowLoop(cfg, rw, col + 1, next)
                         : next \in {FieldStep(cfg, rw, col, st)}} : TRUE

handleRow(cfg, rw, possible, enums, null) ==
    CHOOSE out \in
        { RowLoop(cfg, rw, 1, st)
          : st \in {[PossibleTypes |-> possible, Enums |-> enums, Null |-> null,
                     calls |-> [c \in 1..Len(rw) |-> {}]]} } : TRUE

(***************************************************************************)
(* Names and quoting                                                       *)
(***************************************************************************)
\* nonAlphaRe.Split(s, -1), nonAlphaRe being [^a-zA-Z0-9]+
SplitNonAlpha(s) ==
    LET bad    == {i \in 1..Len(s) : s[i] \notin AlphaNum}
        starts == {i \in bad : (i - 1) \notin bad}
        ends   == {i \in bad : (i + 1) \notin bad}
        n      == Cardinality(starts)
        lo(k)  == IF k = 1 THEN 1 ELSE Nth(ends, k - 1) + 1
        hi(k)  == IF k = n + 1 THEN Len(s) ELSE Nth(starts, k) - 1
    IN  [k \in 1..(n + 1) |-> SubSeq(s, lo(k), hi(k))]

snake(s) == ToLower(Join(SplitNonAlpha(s), <<"_">>))

\* the reserved words of PostgreSQL (pg_get_keywords() where catcode != 'U');
\* the generated table itself is not part of the sources
keywords ==
    { <<"o", "r", "d", "e", "r">>,
      <<"t", "a", "b", "l", "e">>,
      <<"s", "e", "l", "e", "c", "t">>,
      <<"u", "s", "e", "r">>,
      <<"g", "r", "o", "u", "p">>,
      <<"f", "r", "o", "m">>,
      <<"w", "h", "e", "r", "e">>,
      <<"c", "h", "a", "r">>,
      <<"b", "e", "t", "w", "e", "e", "n">> }

QuoteIdent(s) ==
    IF needsQuoteRe(s) THEN s
    ELSE <<"\"">> \o DoubleChar(s, "\"") \o <<"\"">>

QuoteName(s) ==
    IF s \notin keywords /\ needsQuoteRe(s) THEN s
    ELSE <<"\"">> \o DoubleChar(s, "\"") \o <<"\"">>

quoteLiteral(s) == <<"'">> \o DoubleChar(s, "'") \o <<"'">>

\* strconv.Itoa for n >= 0 (the %d of Sprintf)
RECURSIVE Itoa(_)
Itoa(n) == IF n < 10 THEN <<DigitSeq[n + 1]>> ELSE Itoa(n \div 10) \o <<DigitSeq[(n % 10) + 1]>>

\* fmt.Sprintf("col%d", i)
ColName(i) == <<"c", "o", "l">> \o Itoa(i)

EnumSuffix == <<"_", "e", "n", "u", "m">>

NotNullSuffix == <<" ", "n", "o", "t", " ", "n", "u", "l", "l">>

\* the loop that decides on a column's type without its break
RECURSIVE LastType(_, _, _)
LastType(types, possibles, i) ==
    IF i > Len(types) THEN <<>>
    ELSE LET rest == LastType(types, possibles, i + 1)
         IN  IF rest # <<>> THEN rest
             ELSE IF HasFlag(possibles, types[i].flag) THEN types[i].Name
             ELSE <<>>

(***************************************************************************)
(* The end of Intuit: column types, enum definitions, the table definition *)
(***************************************************************************)
\* the name of the first type whose flag is in the set, "" when there is none
RECURSIVE FirstType(_, _, _)
FirstType(types, possibles, i) ==
    IF i > Len(types) THEN <<>>
    ELSE IF HasFlag(possibles, types[i].flag) THEN types[i].Name
    ELSE FirstType(types, possibles, i + 1)

\* "Decide on column types"
DecideTypes(cfg, names, possible) ==
    [col \in 1..Len(names) |-> FirstType(cfg.Types, possible[col], 1)]

\* the orders in which ranging over a map of these keys may yield them
Orderings(S) == {f \in [1..Cardinality(S) -> S] : \A x \in S : \E i \in DOMAIN f : f[i] = x}

\* one create type statement; order is the order the map yielded the values in
EnumStatement(name, order) ==
    <<"c", "r", "e", "a", "t", "e", " ", "t", "y", "p", "e", " ">> \o QuoteIdent(name) \o <<" ", "a", "s", " ", "e", "n", "u", "m", " ", "(", "\n">>
    \o Join([i \in 1..Len(order) |-> <<" ", " ">> \o quoteLiteral(order[i])], <<",", "\n">>)
    \o <<"\n", ")", ";", "\n", "\n">>

\* "Patch up enums" without c.ColumnTypes[col] = enumName
RECURSIVE PatchEnumsNoRename(_, _, _, _, _)
PatchEnumsNoRename(names, types, ddl, orders, col) ==
    IF col > Len(types) THEN [ColumnTypes |-> types, EnumDDL |-> ddl]
    ELSE IF types[col] # T_enum THEN PatchEnumsNoRename(names, types, ddl, orders, col + 1)
    ELSE PatchEnumsNoRename(names, types,
                            ddl \o EnumStatement(names[col] \o EnumSuffix, orders[col]),
                            orders, col + 1)

\* "Patch up enums" from column col on: [ColumnTypes, EnumDDL]
RECURSIVE PatchEnums(_, _, _, _, _)
PatchEnums(names, types, ddl, orders, col) ==
    IF col > Len(types) THEN [ColumnTypes |-> types, EnumDDL |-> ddl]
    ELSE IF types[col] # T_enum THEN PatchEnums(names, types, ddl, orders, col + 1)
    ELSE PatchEnums(names,
                    [types EXCEPT ![col] = names[col] \o EnumSuffix],
                    ddl \o EnumStatement(names[col] \o EnumSuffix, orders[col]),
                    orders, col + 1)

\* one line of the create table statement
ColumnLine(name, type, null) ==
    <<" ", " ">> \o QuoteName(name) \o <<" ">> \o QuoteIdent(type)
    \o (IF null THEN <<>> ELSE NotNullSuffix)

\* "Generate create table statement"
CreateTable(table, names, types, null) ==
    <<"c", "r", "e", "a", "t", "e", " ", "t", "a", "b", "l", "e", " ">> \o QuoteName(table) \o <<" ", "(", "\n">>
    \o Join([i \in 1..Len(types) |-> ColumnLine(names[i], types[i], null[i])], <<",", "\n">>)
    \o <<"\n", ")", ";", "\n">>


(***************************************************************************)
(* Bounds and inputs of the model                                          *)
(***************************************************************************)
\* the most data rows the row source yields
MaxRows == 3

\* the most fields of a row
MaxCols == 2

\* Config.Sample ranges over 0..MaxSample (0: no limit)
MaxSample == 2

\* Config.EnumCount ranges over 0..MaxEnumCount
MaxEnumCount == 2

\* the fields of a row of one column: empty, an integer, two plain tokens
\* and a token that is also a boolean
Values == { <<>>, <<"1">>, <<"a">>, <<"b">>, <<"t">> }

\* the first fields of a longer row
FirstValues == { <<>>, <<"1">>, <<"a">> }

\* the other fields of a longer row
OtherValues == { <<>>, <<"b">> }

DataRows ==
    {<<v>> : v \in Values}
    \cup UNION { {r \in [1..n -> Values] : r[1] \in FirstValues /\ \A i \in 2..n : r[i] \in OtherValues}
                 : n \in 2..MaxCols }

\* the header fields the row source yields, by column
HeaderField(i) ==
    IF i = 1 THEN <<"i", "d">>
    ELSE IF i = 2 THEN <<"O", "r", "d", "e", "r">>
    ELSE <<"N", "o", " ">> \o Itoa(i)

HeaderRows == { [i \in 1..n |-> HeaderField(i)] : n \in 1..MaxCols }

T_broken == <<"b", "r", "o", "k", "e", "n">>

\* a type with neither Handle nor Isa nor Pattern
NoLogicType == [Name |-> T_broken, Pattern |-> "", Isa |-> "nil", Handle |-> "nil", flag |-> 0]

\* a catalog with the extra type tp before the catch-all
WithType(tp) == Take(DefaultTypes, Len(DefaultTypes) - 1) \o <<tp, DefaultTypes[Len(DefaultTypes)]>>

Catalogs == { DefaultTypes, WithType(NoLogicType), WithType(PatternType(T_broken, BadPattern)) }

Excludes == { <<>>, <<T_text>>, <<T_integer, T_enum>>, <<T_broken>> }

\* Config.ColumnNames: none, what strings.Split("", ",") gives, and two names
ExplicitNames == { <<>>, << <<>> >>, << <<"k">>, <<"u", "s", "e", "r">> >> }

\* the configurations: the type broken is excluded only where it is configured
Configs ==
    { c \in [ SnakeCase   : {TRUE},
              Sample      : 0..MaxSample,
              ColumnNames : ExplicitNames,
              NotNull     : BOOLEAN,
              ReadHeader  : BOOLEAN,
              EnumLength  : {DefaultEnumLength},
              EnumCount   : 0..MaxEnumCount,
              Types       : Catalogs,
              Exclude     : Excludes,
              TableName   : {<<>>} ] :
        (c.Exclude = <<T_broken>>) => (c.Types # DefaultTypes) }

(***************************************************************************)
(* State: the Config, the fields of the Intuitor, the position in Intuit,  *)
(* and what an observer of the run records                                 *)
(***************************************************************************)
VARIABLES
    Config,         \* *Intuitor.Config
    ColumnNames,    \* Intuitor.ColumnNames
    PossibleTypes,  \* Intuitor.PossibleTypes
    Enums,          \* Intuitor.Enums
    ColumnTypes,    \* Intuitor.ColumnTypes
    Null,           \* Intuitor.Null
    row,            \* Intuitor.row
    EnumDDL,        \* Intuitor.EnumDDL
    TableDDL,       \* Intuitor.TableDDL
    pc,             \* where Intuit is: start, header, first, loop, done, error
    err,            \* the error Intuit returned, "" for none
    reads,          \* the calls of reader.Read so far
    history,        \* the rows handed to handleRow so far, in order
    lastRead,       \* what the last call of reader.Read returned
    lastCalls,      \* by column, the types whose Handle ran in the last handleRow
    reader,         \* the RowReader handed to Intuit
    earlier         \* what an earlier call of Intuit on this Intuitor left

vars == << Config, ColumnNames, PossibleTypes, Enums, ColumnTypes, Null, row,
           EnumDDL, TableDDL, pc, err, reads, history, lastRead, lastCalls,
           reader, earlier >>

intuitor == << ColumnNames, PossibleTypes, Enums, ColumnTypes, Null, row, EnumDDL, TableDDL >>

columns == << PossibleTypes, Enums, Null >>

observed == << history, lastCalls >>

\* what reader.Read returns: a row, or an error (io.EOF being one)
NoRead == [result |-> "none", fields |-> <<>>]

GotRow(rw) == [result |-> "row", fields |-> rw]

GotEOF == [result |-> "EOF", fields |-> <<>>]

GotError == [result |-> "error", fields |-> <<>>]

\* a RowReader over a file that may hold any of the rows in rows
AnyReader(rows) == [kind |-> "any", rows |-> rows, header |-> <<>>, replay |-> <<>>]

\* a RowReader over the file made of the header (if one is read) and the rows
FixedReader(header, rows) == [kind |-> "fixed", rows |-> {}, header |-> header, replay |-> rows]

\* the headers reader.Read may return now
NextHeaders == IF reader.kind = "any" THEN HeaderRows ELSE {reader.header}

\* the data rows reader.Read may return now
NextRows ==
    IF reader.kind = "any" THEN reader.rows
    ELSE IF Len(history) < Len(reader.replay) THEN {reader.replay[Len(history) + 1]}
    ELSE {}

\* reader.Read may return io.EOF now
AtEOF == reader.kind = "any" \/ Len(history) = Len(reader.replay)

\* reader.Read may return another error now
MayFail == reader.kind = "any"

\* the errors reader.Read may return now
FailResults ==
    (IF MayFail THEN {GotError} ELSE {}) \cup (IF AtEOF THEN {GotEOF} ELSE {})

\* no call of Intuit was made before
NoEarlier ==
    [n |-> 0, ColumnNames |-> <<>>, ColumnTypes |-> <<>>, Null |-> <<>>,
     Enums |-> <<>>, EnumDDL |-> <<>>, TableDDL |-> <<>>]

\* NewIntuitor(c) for a configuration c of configs, and a reader over rows
Start(configs, rows) ==
    /\ Config \in configs
    /\ reader = AnyReader(rows)
    /\ earlier = NoEarlier
    /\ ColumnNames = <<>>
    /\ PossibleTypes = <<>>
    /\ Enums = <<>>
    /\ ColumnTypes = <<>>
    /\ Null = <<>>
    /\ row = 0
    /\ EnumDDL = <<>>
    /\ TableDDL = <<>>
    /\ pc = "start"
    /\ err = ""
    /\ reads = 0
    /\ history = <<>>
    /\ lastRead = NoRead
    /\ lastCalls = <<>>

Init == Start(Configs, DataRows)

\* Intuit fails
Fail(e) == pc' = "error" /\ err' = e

\* Intuit up to the first read
Tidy ==
    /\ pc = "start"
    /\ LET r == tidy(Config)
       IN  /\ Config' = r.Config
           /\ IF r.err # ""
              THEN Fail(r.err) /\ UNCHANGED row
              ELSE /\ row' = 0
                   /\ pc' = IF r.Config.ReadHeader THEN "header" ELSE "first"
                   /\ err' = ""
    /\ UNCHANGED << ColumnNames, columns, ColumnTypes, EnumDDL, TableDDL, reads, lastRead, observed,
                    reader, earlier >>

\* the header is read
ReadHeaderRow ==
    /\ pc = "header"
    /\ \E header \in NextHeaders :
          /\ lastRead' = GotRow(header)
          /\ reader' = [reader EXCEPT !.header = header]
          /\ ColumnNames' = [i \in 1..Len(header) |->
                                IF Config.SnakeCase THEN snake(header[i]) ELSE header[i]]
    /\ row' = row + 1
    /\ reads' = reads + 1
    /\ pc' = "first"
    /\ UNCHANGED << Config, columns, ColumnTypes, EnumDDL, TableDDL, err, observed, earlier >>

\* reading the header fails (the end of the input is a failure here)
ReadHeaderFail ==
    /\ pc = "header"
    /\ row' = row + 1
    /\ reads' = reads + 1
    /\ lastRead' \in FailResults
    /\ Fail("ReadHeader")
    /\ UNCHANGED << Config, ColumnNames, columns, ColumnTypes, EnumDDL, TableDDL, observed,
                    reader, earlier >>

\* the names of the columns once the first row is there
FirstRowNames(cfg, names, firstrow) ==
    IF Len(names) = 0
    THEN IF Len(cfg.ColumnNames) # 0 THEN cfg.ColumnNames
         ELSE [i \in 1..Len(firstrow) |-> ColName(i - 1)]
    ELSE names

\* what an observer adds for a row handed to handleRow
Observe(rw, st) ==
    /\ history' = Append(history, rw)
    /\ lastCalls' = st.calls

\* the test of a row against the column names with > for !=
LongerThan(rw, names) == Len(rw) > Len(names)

\* len(row) != len(c.ColumnNames)
WrongLength(rw, names) == Len(rw) # Len(names)

\* the first row is read, the state of the scan set up and the row handled
ReadFirstRow ==
    /\ pc = "first"
    /\ row' = row + 1
    /\ reads' = reads + 1
    /\ \E firstrow \in NextRows :
          LET names == FirstRowNames(Config, ColumnNames, firstrow)
              n     == Len(names)
          IN  /\ lastRead' = GotRow(firstrow)
              /\ ColumnNames' = names
              /\ IF WrongLength(firstrow, names)
                 THEN Fail("HeaderLength") /\ UNCHANGED << columns, observed >>
                 ELSE \E st \in {handleRow(Config, firstrow,
                                           [i \in 1..n |-> allPossibleTypes(Config)],
                                           [i \in 1..n |-> {}],
                                           [i \in 1..n |-> FALSE])} :
                         /\ PossibleTypes' = st.PossibleTypes
                         /\ Enums' = st.Enums
                         /\ Null' = st.Null
                         /\ Observe(firstrow, st)
                         /\ pc' = "loop"
                         /\ err' = ""
    /\ UNCHANGED << Config, ColumnTypes, EnumDDL, TableDDL, reader, earlier >>

\* reading the first row fails, with the end of the input taken for the end
\* of the scan as it is in the loop over the rest of the file
ReadFirstEnds ==
    /\ pc = "first"
    /\ row' = row + 1
    /\ reads' = reads + 1
    /\ lastRead' \in FailResults
    /\ IF lastRead' = GotEOF
       THEN pc' = "done" /\ err' = ""
       ELSE Fail("ReadFirstRow")
    /\ UNCHANGED << Config, ColumnNames, columns, ColumnTypes, EnumDDL, TableDDL, observed,
                    reader, earlier >>

\* reading the first row fails (the end of the input is a failure here)
ReadFirstFail ==
    /\ pc = "first"
    /\ row' = row + 1
    /\ reads' = reads + 1
    /\ lastRead' \in FailResults
    /\ Fail("ReadFirstRow")
    /\ UNCHANGED << Config, ColumnNames, columns, ColumnTypes, EnumDDL, TableDDL, observed,
                    reader, earlier >>

\* the test at the head of the loop over the rest of the file
SampleReached == Config.Sample # 0 /\ row > Config.Sample

\* a further row is read and handled
ReadRow ==
    /\ pc = "loop"
    /\ ~SampleReached
    /\ Len(history) < MaxRows
    /\ row' = row + 1
    /\ reads' = reads + 1
    /\ \E rw \in NextRows :
          /\ lastRead' = GotRow(rw)
          /\ IF WrongLength(rw, ColumnNames)
             THEN Fail("RowLength") /\ UNCHANGED << columns, observed >>
             ELSE \E st \in {handleRow(Config, rw, PossibleTypes, Enums, Null)} :
                  /\ PossibleTypes' = st.PossibleTypes
                  /\ Enums' = st.Enums
                  /\ Null' = st.Null
                  /\ Observe(rw, st)
                  /\ UNCHANGED << pc, err >>
    /\ UNCHANGED << Config, ColumnNames, ColumnTypes, EnumDDL, TableDDL, reader, earlier >>

\* reading a further row fails
ReadRowFail ==
    /\ pc = "loop"
    /\ ~SampleReached
    /\ row' = row + 1
    /\ reads' = reads + 1
    /\ MayFail
    /\ lastRead' = GotError
    /\ Fail("ReadRow")
    /\ UNCHANGED << Config, ColumnNames, columns, ColumnTypes, EnumDDL, TableDDL, observed,
                    reader, earlier >>

\* what follows the loop; orders[col] is the order the map Enums[col] is ranged in
Finish(orders) ==
    LET decided == DecideTypes(Config, ColumnNames, PossibleTypes)
        patched == PatchEnums(ColumnNames, decided, EnumDDL, orders, 1)
    IN  /\ ColumnTypes' = patched.ColumnTypes
        /\ EnumDDL' = patched.EnumDDL
        /\ TableDDL' = CreateTable(Config.TableName, ColumnNames, patched.ColumnTypes, Null)
        /\ pc' = "done"
        /\ err' = ""

\* the orders the maps of Enums may be ranged in, by column
MapOrders ==
    LET all == UNION {Orderings(Enums[c]) : c \in DOMAIN Enums}
    IN  {o \in [DOMAIN Enums -> all] : \A c \in DOMAIN Enums : o[c] \in Orderings(Enums[c])}

\* the row source is at its end: the scan is over
ReadEOF ==
    /\ pc = "loop"
    /\ ~SampleReached
    /\ row' = row + 1
    /\ reads' = reads + 1
    /\ AtEOF
    /\ lastRead' = GotEOF
    /\ \E orders \in MapOrders : Finish(orders)
    /\ UNCHANGED << Config, ColumnNames, columns, observed, reader, earlier >>

\* the sample limit is reached: the scan is over
SampleBreak ==
    /\ pc = "loop"
    /\ SampleReached
    /\ \E orders \in MapOrders : Finish(orders)
    /\ UNCHANGED << Config, ColumnNames, columns, row, reads, lastRead, observed,
                    reader, earlier >>

Next ==
    \/ Tidy
    \/ ReadHeaderRow
    \/ ReadHeaderFail
    \/ ReadFirstRow
    \/ ReadFirstFail
    \/ ReadRow
    \/ ReadRowFail
    \/ ReadEOF
    \/ SampleBreak

Spec == Init /\ [][Next]_vars

(***************************************************************************)
(* A whole scan as a function of the data rows: what Intuit computes from  *)
(* the first row on when nothing fails and there is no sample limit        *)
(***************************************************************************)
\* the calls of handleRow for rows[k], rows[k+1], ...
RECURSIVE ScanRows(_, _, _, _)
ScanRows(cfg, rows, k, st) ==
    IF k > Len(rows) THEN st
    ELSE CHOOSE out \in {ScanRows(cfg, rows, k + 1, next)
                         : next \in {handleRow(cfg, rows[k], st.PossibleTypes, st.Enums, st.Null)}} : TRUE

\* the state of the columns after the rows
ScanAll(cfg, names, rows) ==
    ScanRows(cfg, rows, 1,
             [PossibleTypes |-> [i \in 1..Len(names) |-> allPossibleTypes(cfg)],
              Enums         |-> [i \in 1..Len(names) |-> {}],
              Null          |-> [i \in 1..Len(names) |-> FALSE],
              calls         |-> <<>>])

\* ColumnTypes after the rows
IntuitRows(cfg, names, rows) ==
    PatchEnums(names, DecideTypes(cfg, names, ScanAll(cfg, names, rows).PossibleTypes),
               <<>>, [i \in 1..Len(names) |-> <<>>], 1).ColumnTypes

(***************************************************************************)
(* Vocabulary of the properties                                            *)
(***************************************************************************)
\* the scan has begun: tidy succeeded and the first row was handled
Scanning == pc \in {"loop", "done"}

\* the indexes in Config.Types of the types of the set mask
TypesIn(mask) == {i \in DOMAIN Config.Types : HasFlag(mask, Config.Types[i].flag)}

\* the type Config.Types[i] is switched off by the configuration
Excluded(i) ==
    \/ \E k \in DOMAIN Config.Exclude : Config.Exclude[k] = Config.Types[i].Name
    \/ Config.Types[i].Name = T_enum /\ Config.EnumCount = 0

\* the index of the type named name
TypeIndex(name) == CHOOSE i \in DOMAIN Config.Types : Config.Types[i].Name = name

EnumEnabled == ~Excluded(TypeIndex(T_enum))

\* the values of column col in the rows handled so far
ColumnValues(col) == {history[k][col] : k \in DOMAIN history}

\* those of them handleRow does not skip
Judged(col) == {v \in ColumnValues(col) : ~(v = <<>> /\ Config.NotNull)}

\* a short valid token
ValidToken(v) == Len(v) > 0 /\ Len(v) <= Config.EnumLength /\ enumRe(v)

\* the type Config.Types[i] accepts every judged value of column col
AcceptsAll(i, col) ==
    IF Config.Types[i].Name = T_enum
    THEN /\ \A v \in Judged(col) : ValidToken(v)
         /\ Cardinality(Judged(col)) <= Config.EnumCount
    ELSE \A v \in Judged(col) : CallHandle(Config.Types[i], v, col, Config, Enums).ok

\* column col is resolved to the type Config.Types[i]
ResolvesTo(col, i) ==
    ColumnTypes[col] = IF Config.Types[i].Name = T_enum
                       THEN ColumnNames[col] \o EnumSuffix
                       ELSE Config.Types[i].Name

\* the line of column col in the create table statement, without its comma
ColumnText(ddl, col) ==
    LET line == SplitOn(ddl, "\n")[col + 1]
    IN  IF HasSuffix(line, <<",">>) THEN Take(line, Len(line) - 1) ELSE line

\* the set of types column col had before this step
PossibleBefore(col) ==
    IF col \in DOMAIN PossibleTypes THEN PossibleTypes[col] ELSE allPossibleTypes(Config)

\* the enum tracker column col had before this step
EnumsBefore(col) == IF col \in DOMAIN Enums THEN Enums[col] ELSE {}

\* this step hands a row to handleRow
HandlesRow == Len(history') = Len(history) + 1

\* the permutations of 1..n
RowOrders(n) == {p \in [1..n -> 1..n] : \A i, j \in 1..n : p[i] = p[j] => i = j}

Permute(rows, p) == [k \in DOMAIN rows |-> rows[p[k]]]

(***************************************************************************)
(* C1                                                                      *)
(***************************************************************************)
\* C1: every call of handleRow leaves each column with a subset of the types
\* the column had before it (of the initial set, for the first row): a type
\* once removed from a column is not in that column's set again.
C1_Monotonic ==
    [][ \A col \in DOMAIN PossibleTypes' :
            TypesIn(PossibleTypes'[col]) \subseteq TypesIn(PossibleBefore(col)) ]_vars

\* all the rows were handled, and a column lost types on the way
C1_Witness ==
    /\ pc = "loop"
    /\ Len(history) = MaxRows
    /\ \E col \in DOMAIN PossibleTypes :
          /\ TypesIn(PossibleTypes[col]) # {}
          /\ TypesIn(PossibleTypes[col]) # TypesIn(allPossibleTypes(Config))
          /\ Cardinality(Judged(col)) >= 2

(***************************************************************************)
(* C2                                                                      *)
(***************************************************************************)
\* C2: whatever the rows and the configuration, text is in the set of every
\* column throughout the scan, and at the end every column has a type name
\* that is not empty.
C2_TextAlwaysPossible ==
    Scanning =>
        \A col \in DOMAIN PossibleTypes :
            /\ HasFlag(PossibleTypes[col], Config.Types[TypeIndex(T_text)].flag)
            /\ pc = "done" => ColumnTypes[col] # <<>>

(***************************************************************************)
(* C3                                                                      *)
(***************************************************************************)
\* the column lines of the table definition carry " not null" exactly for the
\* columns without a skipped empty field
C3_Emitted ==
    \A col \in DOMAIN ColumnNames :
        HasSuffix(ColumnText(TableDDL, col), NotNullSuffix)
            <=> ~(Config.NotNull /\ <<>> \in ColumnValues(col))

\* C3: with NotNull set, handling a row sets Null[c] for each column c whose
\* field is empty, leaves the set of types and the enum tracker of that column
\* as they were and calls no detector for it; in the table definition a column
\* is written without " not null" if an empty field was handled in it and
\* with " not null" if none was.
C3_EmptyField ==
    [][ /\ (Config.NotNull /\ HandlesRow) =>
              \A c \in DOMAIN lastRead'.fields :
                  lastRead'.fields[c] = <<>> =>
                      /\ Null'[c] = TRUE
                      /\ PossibleTypes'[c] = PossibleBefore(c)
                      /\ Enums'[c] = EnumsBefore(c)
                      /\ lastCalls'[c] = {}
        /\ (pc' = "done") => C3_Emitted' ]_vars

\* a finished run with NotNull set: an empty field was handled in one column
\* after that column had lost types, and none in another
C3_Witness ==
    /\ pc = "done"
    /\ Config.NotNull
    /\ \E c, d \in DOMAIN ColumnNames :
          /\ <<>> \in ColumnValues(c) /\ Null[c]
          /\ history[Len(history)][c] = <<>>
          /\ PossibleTypes[c] # allPossibleTypes(Config)
          /\ ~HasSuffix(ColumnText(TableDDL, c), NotNullSuffix)
          /\ <<>> \notin ColumnValues(d) /\ ~Null[d]
          /\ HasSuffix(ColumnText(TableDDL, d), NotNullSuffix)

(***************************************************************************)
(* C4                                                                      *)
(***************************************************************************)
\* some type before enum in the catalog, not switched off, accepts every
\* judged value of column col
EarlierTypeAccepts(col) ==
    \E i \in 1..(TypeIndex(T_enum) - 1) : ~Excluded(i) /\ AcceptsAll(i, col)

\* C4 as stated: with enum on and EnumCount = K, a column of exactly K
\* distinct short valid tokens is resolved to <name>_enum, and one of K+1 is not.
C4_EnumCutoff ==
    (pc = "done" /\ EnumEnabled) =>
        \A col \in DOMAIN ColumnNames :
            (\A v \in Judged(col) : ValidToken(v)) =>
                /\ Cardinality(Judged(col)) = Config.EnumCount
                      => ColumnTypes[col] = ColumnNames[col] \o EnumSuffix
                /\ Cardinality(Judged(col)) = Config.EnumCount + 1
                      => ColumnTypes[col] # ColumnNames[col] \o EnumSuffix

\* C4 amended: with enum on and EnumCount = K, a column of exactly K distinct
\* short valid tokens is resolved to <name>_enum unless a type before enum in
\* the catalog, not switched off, accepts all of them; a column of K+1 distinct
\* short valid tokens is not resolved to <name>_enum.
C4_EnumCutoffUnlessEarlier ==
    (pc = "done" /\ EnumEnabled) =>
        \A col \in DOMAIN ColumnNames :
            (\A v \in Judged(col) : ValidToken(v)) =>
                /\ (Cardinality(Judged(col)) = Config.EnumCount /\ ~EarlierTypeAccepts(col))
                      => ColumnTypes[col] = ColumnNames[col] \o EnumSuffix
                /\ (Cardinality(Judged(col)) = Config.EnumCount /\ EarlierTypeAccepts(col))
                      => ColumnTypes[col] # ColumnNames[col] \o EnumSuffix
                /\ Cardinality(Judged(col)) = Config.EnumCount + 1
                      => ColumnTypes[col] # ColumnNames[col] \o EnumSuffix

\* a finished run with EnumCount = 2 and a column of the two tokens a and b,
\* resolved to its enum type
C4_Witness ==
    /\ pc = "done"
    /\ EnumEnabled
    /\ Config.EnumCount = MaxEnumCount
    /\ \E col \in DOMAIN ColumnNames :
          /\ Judged(col) = { <<"a">>, <<"b">> }
          /\ ColumnTypes[col] = ColumnNames[col] \o EnumSuffix
          /\ EnumDDL # <<>>

(***************************************************************************)
(* C5                                                                      *)
(***************************************************************************)
\* this step reads a data row whose number of fields is not that of the columns
ReadsMisfit ==
    /\ pc \in {"first", "loop"}
    /\ reads' = reads + 1
    /\ lastRead'.result = "row"
    /\ Len(lastRead'.fields) # Len(ColumnNames')

\* C5: reading a data row whose number of fields differs from the number of
\* columns ends Intuit with an error in that very step: the row is not handed
\* to handleRow, the state of the columns stays as it was, no definition is
\* produced, and after an error nothing more happens (no row is read).
C5_RowLength ==
    [][ /\ pc # "error"
        /\ ReadsMisfit =>
              /\ pc' = "error"
              /\ err' \in {"HeaderLength", "RowLength"}
              /\ UNCHANGED << columns, history, lastCalls >>
              /\ ColumnTypes' = <<>>
              /\ EnumDDL' = <<>>
              /\ TableDDL' = <<>> ]_vars

\* a row of the wrong length came after rows that were handled
C5_Witness ==
    /\ pc = "error"
    /\ err = "RowLength"
    /\ Len(history) >= 1
    /\ lastRead.result = "row"
    /\ Len(lastRead.fields) # Len(ColumnNames)
    /\ TableDDL = <<>>

(***************************************************************************)
(* C6                                                                      *)
(***************************************************************************)
\* C6: with Sample = N >= 1 no more than N rows are handed to handleRow,
\* with a header or without.
C6_SampleLimit ==
    Config.Sample >= 1 => Len(history) <= Config.Sample

(***************************************************************************)
(* C7                                                                      *)
(***************************************************************************)
\* a type tidy cannot give a Handle
Faulty(tp) ==
    tp.Handle = "nil" /\ tp.Isa = "nil" /\ (tp.Pattern = "" \/ ~Compiles(tp.Pattern))

\* C7: with a type in the catalog that has no Handle, no Isa and no Pattern
\* that compiles, Intuit ends in the error of tidy; reader.Read is never
\* called, no state of the columns and no definition is produced; it is so
\* whether the type is named in Exclude or not.
C7_ConfigError ==
    \A i \in DOMAIN Config.Types :
        Faulty(Config.Types[i]) =>
            /\ reads = 0
            /\ lastRead = NoRead
            /\ history = <<>>
            /\ intuitor = << <<>>, <<>>, <<>>, <<>>, <<>>, 0, <<>>, <<>> >>
            /\ pc \in {"start", "error"}
            /\ pc = "error" =>
                  err = IF Config.Types[i].Pattern = "" THEN "NoLogic" ELSE "InvalidPattern"

\* Intuit failed in tidy over a type that Exclude names
C7_Witness ==
    /\ pc = "error"
    /\ err \in {"NoLogic", "InvalidPattern"}
    /\ \E i \in DOMAIN Config.Types :
          /\ Faulty(Config.Types[i])
          /\ \E k \in DOMAIN Config.Exclude : Config.Exclude[k] = Config.Types[i].Name

(***************************************************************************)
(* C8                                                                      *)
(***************************************************************************)
\* C8: a type named in Exclude, and enum when EnumCount is 0, is in no
\* column's set at any time, its Handle is called in no handleRow and no
\* column is resolved to it; the column is resolved to the type that comes
\* first in the catalog among those left in its set.
C8_Excluded ==
    Scanning =>
        \A col \in DOMAIN PossibleTypes :
            /\ \A i \in DOMAIN Config.Types :
                  Excluded(i) =>
                      /\ i \notin TypesIn(PossibleTypes[col])
                      /\ col \in DOMAIN lastCalls => Config.Types[i].Name \notin lastCalls[col]
                      /\ pc = "done" => ~ResolvesTo(col, i)
            /\ pc = "done" =>
                  \A i, j \in TypesIn(PossibleTypes[col]) : i < j => ~ResolvesTo(col, j)

\* integer and enum are switched off and a column of the value 1 is resolved
\* to bigint
C8_Witness ==
    /\ pc = "done"
    /\ Config.Exclude = << T_integer, T_enum >>
    /\ \E col \in DOMAIN ColumnNames :
          /\ Judged(col) = { <<"1">> }
          /\ ColumnTypes[col] = T_bigint

(***************************************************************************)
(* C9                                                                      *)
(***************************************************************************)
\* C9: at the end each column is resolved to the first type of the catalog
\* whose flag is in the column's set: the types before it were switched off or
\* rejected a judged value of the column, and it accepted all of them.
C9_FirstPossible ==
    pc = "done" =>
        \A col \in DOMAIN ColumnNames :
            \E i \in DOMAIN Config.Types :
                /\ ResolvesTo(col, i)
                /\ i \in TypesIn(PossibleTypes[col])
                /\ \A j \in 1..(i - 1) : j \notin TypesIn(PossibleTypes[col])
                /\ \A j \in 1..(i - 1) : Excluded(j) \/ ~AcceptsAll(j, col)
                /\ AcceptsAll(i, col)

(***************************************************************************)
(* C10                                                                     *)
(***************************************************************************)
\* the sequences of up to MaxRows rows of n fields
RowSeqs(n) ==
    UNION { [1..m -> {r \in DataRows : Len(r) = n}] : m \in 1..MaxRows }

\* C10 as stated: with enum on and no sample limit there are rows, and two
\* orders of them, for which a column is resolved to different types.
C10_OrderMatters ==
    (pc = "first" /\ Config.Sample = 0 /\ EnumEnabled) =>
        \E n \in 1..MaxCols : \E rows \in RowSeqs(n) : \E p \in RowOrders(Len(rows)) :
            LET names == [i \in 1..n |-> ColName(i - 1)]
            IN  IntuitRows(Config, names, Permute(rows, p)) # IntuitRows(Config, names, rows)

\* C10 amended: with enum on and no sample limit, the types the columns are
\* resolved to are the same for every order of the rows handled; what depends
\* on the order is only the content of the enum tracker of a column that
\* enum was removed from.
C10_OrderIrrelevant ==
    (pc = "done" /\ Config.Sample = 0 /\ EnumEnabled) =>
        \A p \in RowOrders(Len(history)) :
            IntuitRows(Config, ColumnNames, Permute(history, p)) = ColumnTypes

\* a finished run of MaxRows rows whose enum tracker would differ had the
\* rows come in another order
C10_Witness ==
    /\ pc = "done"
    /\ Config.Sample = 0
    /\ EnumEnabled
    /\ Len(history) = MaxRows
    /\ \E p \in RowOrders(Len(history)) :
          ScanAll(Config, ColumnNames, Permute(history, p)).Enums # Enums

(***************************************************************************)
(* C11: Intuit called again on the same Intuitor                           *)
(***************************************************************************)
\* Intuit returned nil and the caller calls it again on the same Intuitor,
\* with a reader over the same header and the same rows: the fields of the
\* Intuitor are as the first call left them
IntuitAgain ==
    /\ pc = "done"
    /\ earlier.n = 0
    /\ earlier' = [n |-> 1, ColumnNames |-> ColumnNames, ColumnTypes |-> ColumnTypes,
                   Null |-> Null, Enums |-> Enums, EnumDDL |-> EnumDDL, TableDDL |-> TableDDL]
    /\ reader' = FixedReader(reader.header, history)
    /\ pc' = "start"
    /\ err' = ""
    /\ reads' = 0
    /\ history' = <<>>
    /\ lastRead' = NoRead
    /\ lastCalls' = <<>>
    /\ UNCHANGED << Config, intuitor >>

\* the configurations of the runs that are repeated
AgainConfigs ==
    { c \in Configs : /\ c.Types = DefaultTypes
                      /\ c.Exclude = <<>>
                      /\ c.ColumnNames = <<>>
                      /\ c.NotNull
                      /\ c.EnumCount = MaxEnumCount
                      /\ c.Sample \in {0, 1} }

NextAgain == Next \/ IntuitAgain

SpecAgain == Start(AgainConfigs, DataRows) /\ [][NextAgain]_vars

\* the lines of a text, without the comma that ends some of them
LinesOf(text) ==
    { IF HasSuffix(l, <<",">>) THEN Take(l, Len(l) - 1) ELSE l
      : l \in Range(SplitOn(text, "\n")) }

\* C11: a second call of Intuit on the same Intuitor, with the same
\* configuration and the same rows, ends with the same ColumnNames,
\* ColumnTypes, Null, TableDDL and, up to the order of enum members, EnumDDL
\* as the first call.
C11_SecondRunSame ==
    (pc = "done" /\ earlier.n = 1) =>
        /\ ColumnNames = earlier.ColumnNames
        /\ ColumnTypes = earlier.ColumnTypes
        /\ Null = earlier.Null
        /\ TableDDL = earlier.TableDDL
        /\ Len(EnumDDL) = Len(earlier.EnumDDL)
        /\ LinesOf(EnumDDL) = LinesOf(earlier.EnumDDL)

(***************************************************************************)
(* C12                                                                     *)
(***************************************************************************)
\* the orders in which the maps enums[col] may be ranged, by column
OrdersOf(enums) ==
    LET all == UNION {Orderings(enums[c]) : c \in DOMAIN enums}
    IN  {o \in [DOMAIN enums -> all] : \A c \in DOMAIN enums : o[c] \in Orderings(enums[c])}

\* what a run of Intuit on a new Intuitor over the rows may end with
Outcomes(cfg, names, rows) ==
    LET st      == ScanAll(cfg, names, rows)
        decided == DecideTypes(cfg, names, st.PossibleTypes)
    IN  { [ColumnTypes |-> patched.ColumnTypes,
           EnumDDL     |-> patched.EnumDDL,
           TableDDL    |-> CreateTable(cfg.TableName, names, patched.ColumnTypes, st.Null)]
          : patched \in {PatchEnums(names, decided, <<>>, orders, 1) : orders \in OrdersOf(st.Enums)} }

\* C12: every other run on a new Intuitor with the same configuration and
\* the same rows ends with the same resolved types, the same EnumDDL text and
\* the same TableDDL text as this one.
C12_Deterministic ==
    pc = "done" =>
        \A other \in Outcomes(Config, ColumnNames, history) :
            /\ other.ColumnTypes = ColumnTypes
            /\ other.EnumDDL = EnumDDL
            /\ other.TableDDL = TableDDL

(***************************************************************************)
(* C13                                                                     *)
(***************************************************************************)
\* what main prints after Intuit: fmt.Println(it.EnumDDL), fmt.Println(it.TableDDL)
Stdout == EnumDDL \o <<"\n">> \o TableDDL \o <<"\n">>

CreateTypeText == <<"c", "r", "e", "a", "t", "e", " ", "t", "y", "p", "e", " ">>

AsEnumText == <<" ", "a", "s", " ", "e", "n", "u", "m", " ", "(">>

CreateTableText == <<"c", "r", "e", "a", "t", "e", " ", "t", "a", "b", "l", "e", " ">>

\* the enum definitions read back from a text: where each starts (its line),
\* the name it defines as written, and the set of its members
DefinitionsIn(text) ==
    LET lines  == SplitOn(text, "\n")
        starts == {i \in DOMAIN lines : HasPrefix(lines[i], CreateTypeText) /\ HasSuffix(lines[i], AsEnumText)}
        end(i) == CHOOSE j \in DOMAIN lines :
                      /\ j > i /\ lines[j] = <<")", ";">>
                      /\ \A k \in (i + 1)..(j - 1) : lines[k] # <<")", ";">>
        bare(l) == IF HasSuffix(l, <<",">>) THEN Take(l, Len(l) - 1) ELSE l
    IN  { [line    |-> i,
           name    |-> SubSeq(lines[i], Len(CreateTypeText) + 1, Len(lines[i]) - Len(AsEnumText)),
           members |-> { SubSeq(bare(lines[k]), 4, Len(bare(lines[k])) - 1)
                         : k \in {j \in (i + 1)..(end(i) - 1) : lines[j] # <<>>} }]
          : i \in starts }

\* the line of the text on which the table definition starts
TableLineIn(text) ==
    LET lines == SplitOn(text, "\n")
    IN  CHOOSE i \in DOMAIN lines : HasPrefix(lines[i], CreateTableText)

\* enum is the first type left in the set of column col
EnumColumn(col) == FirstType(Config.Types, PossibleTypes[col], 1) = T_enum

\* C13: at the end, for every column whose first remaining type is enum,
\* EnumDDL holds exactly one definition of <column-name>_enum; its members are
\* the values in the enum tracker of the column, which are the distinct
\* judged values of the column; the column's type in ColumnTypes and in the
\* table definition is that name; the definition is printed before the table
\* definition; and there is no definition for any other column.
C13_EnumDefinition ==
    pc = "done" =>
        /\ \A col \in DOMAIN ColumnNames :
              EnumColumn(col) =>
                  LET name == ColumnNames[col] \o EnumSuffix
                      defs == {d \in DefinitionsIn(EnumDDL) : d.name = QuoteIdent(name)}
                  IN  /\ Cardinality(defs) = 1
                      /\ \A d \in defs : d.members = Enums[col] /\ d.members = Judged(col)
                      /\ ColumnTypes[col] = name
                      /\ HasPrefix(ColumnText(TableDDL, col),
                                   <<" ", " ">> \o QuoteName(ColumnNames[col]) \o <<" ">> \o QuoteIdent(name))
                      /\ \A d \in {e \in DefinitionsIn(Stdout) : e.name = QuoteIdent(name)} :
                            d.line < TableLineIn(Stdout)
        /\ Cardinality(DefinitionsIn(EnumDDL))
              = Cardinality({col \in DOMAIN ColumnNames : EnumColumn(col)})

\* a finished run in which a column is an enum of two members, defined once
C13_Witness ==
    /\ pc = "done"
    /\ \E c \in DOMAIN ColumnNames :
          /\ EnumColumn(c)
          /\ Cardinality(Enums[c]) = 2
          /\ \E d \in DefinitionsIn(EnumDDL) : d.members = Enums[c]

(***************************************************************************)
(* C14                                                                     *)
(***************************************************************************)
\* fields that are addresses, networks, or neither
NetValues ==
    { <<":", ":", "1">>,
      <<":", ":", "/", "0">>,
      <<":", ":", "1", "/", "8">>,
      <<"1", ".", "2", ".", "3", ".", "4">>,
      <<"1", "0", ".", "0", ".", "0", ".", "0", "/", "8">>,
      <<"1", "0", ".", "0", ".", "0", ".", "1", "/", "8">>,
      <<"a">> }

NetConfigs ==
    { c \in Configs : /\ c.Types = DefaultTypes /\ c.Exclude = <<>> /\ c.ColumnNames = <<>>
                      /\ c.NotNull /\ c.EnumCount = 0 /\ c.Sample \in {0, 1} }

SpecNet == Start(NetConfigs, { <<v>> : v \in NetValues }) /\ [][Next]_vars

\* an address in its 16-byte form
To16(ip) == IF Len(ip) = 4 THEN V4InV6Prefix \o ip ELSE ip

\* s is of CIDR form and no bit right of its prefix is set
ZeroHostCIDR(s) == ParseCIDR(s).ok /\ To16(ParseCIDR(s).ip) = To16(ParseCIDR(s).net)

\* s is of CIDR form and some bit right of its prefix is set
HostCIDR(s) == ParseCIDR(s).ok /\ ~ZeroHostCIDR(s)

\* C14: after the first row of a one-column input is handled, inet is in the
\* column's set exactly when the field is a bare IP literal or a CIDR with a
\* bit set right of the prefix; no CIDR-form field leaves both cidr and inet
\* in the set; and a finished column that holds a bare IP and a CIDR with no
\* host bit set is not resolved to inet.
C14_InetComplement ==
    /\ (Scanning /\ Len(history) = 1 /\ Len(ColumnNames) = 1) =>
          LET v    == history[1][1]
              inet == TypeIndex(T_inet) \in TypesIn(PossibleTypes[1])
              cidr == TypeIndex(T_cidr) \in TypesIn(PossibleTypes[1])
          IN  /\ inet <=> (ParseIP(v) # <<>> \/ HostCIDR(v))
              /\ ParseCIDR(v).ok => ~(cidr /\ inet)
    /\ ( /\ pc = "done" /\ Len(ColumnNames) = 1
         /\ \E v \in ColumnValues(1) : ParseIP(v) # <<>>
         /\ \E v \in ColumnValues(1) : ZeroHostCIDR(v) )
       => ~ResolvesTo(1, TypeIndex(T_inet))

\* the part of C14 the detector does satisfy: inet accepts every bare IP literal
\* and every CIDR with a host bit set, and nothing that is neither IP nor CIDR
C14_InetAccepts ==
    (Scanning /\ Len(history) = 1 /\ Len(ColumnNames) = 1) =>
        LET v    == history[1][1]
            inet == TypeIndex(T_inet) \in TypesIn(PossibleTypes[1])
        IN  /\ (ParseIP(v) # <<>> \/ HostCIDR(v)) => inet
            /\ inet => (ParseIP(v) # <<>> \/ ParseCIDR(v).ok)

(***************************************************************************)
(* C15                                                                     *)
(***************************************************************************)
\* the table names given with -table: plain, with an upper-case letter, a
\* reserved word, and one with a double quote in it
TableNames ==
    { <<"t", "1">>,
      <<"O", "r", "d", "e", "r">>,
      <<"o", "r", "d", "e", "r">>,
      <<"a", "\"", "b">> }

TableConfigs ==
    { [c EXCEPT !.TableName = t] :
        c \in { d \in Configs : /\ d.Types = DefaultTypes /\ d.Exclude = <<>> /\ d.ColumnNames = <<>>
                                /\ d.NotNull /\ d.EnumCount = 0 /\ d.Sample \in {0, 1} },
        t \in TableNames }

SpecTable == Start(TableConfigs, { <<v>> : v \in {<<"1">>, <<"a">>} }) /\ [][Next]_vars

\* main: fmt.Printf("\\copy %s from %s (%s)\n", ...), the parameters being
\* "format csv" and, when a header is read, "header"
CopyCommand(cfg, file) ==
    <<"\\", "c", "o", "p", "y", " ">> \o QuoteIdent(cfg.TableName)
    \o <<" ", "f", "r", "o", "m", " ">> \o file \o <<" ", "(">>
    \o <<"f", "o", "r", "m", "a", "t", " ", "c", "s", "v">>
    \o (IF cfg.ReadHeader THEN <<",", " ", "h", "e", "a", "d", "e", "r">> ELSE <<>>)
    \o <<")", "\n">>

\* args[0], the name of the input file
FileArg == <<"f", ".", "c", "s", "v">>

CopyText == <<"\\", "c", "o", "p", "y", " ">>

\* the text that follows the table name in the \copy command
FromFileText == <<" ", "f", "r", "o", "m", " ">> \o FileArg \o <<" ", "(">>

\* the table name as the create table statement writes it
NameInTable ==
    LET line == SplitOn(TableDDL, "\n")[1]
    IN  SubSeq(line, Len(CreateTableText) + 1, Len(line) - 2)

\* the table name as the \copy command writes it
NameInCopy ==
    LET line == SplitOn(CopyCommand(Config, FileArg), "\n")[1]
        last == Len(line) - Len(FromFileText) + 1
        at   == CHOOSE k \in 1..last :
                    /\ SubSeq(line, k, k + Len(FromFileText) - 1) = FromFileText
                    /\ \A j \in (k + 1)..last :
                          SubSeq(line, j, j + Len(FromFileText) - 1) # FromFileText
    IN  SubSeq(line, Len(CopyText) + 1, at - 1)

\* keyword-aware quoting of an identifier
KeywordAware(name) ==
    IF needsQuoteRe(name) /\ name \notin keywords THEN name
    ELSE <<"\"">> \o DoubleChar(name, "\"") \o <<"\"">>

\* C15: at the end of a run, the table name is written in the create table
\* statement and in the \copy command with keyword-aware quoting (bare only
\* if it matches ^[a-z][a-z0-9_]*$ and is no reserved word, else in double
\* quotes with inner double quotes doubled), hence the same in both places.
C15_TableNameQuoting ==
    pc = "done" =>
        /\ NameInTable = KeywordAware(Config.TableName)
        /\ NameInCopy = KeywordAware(Config.TableName)
        /\ NameInTable = NameInCopy

\* the part of C15 that holds: the create table statement quotes keyword-aware,
\* and the \copy command does so for every name that is no reserved word
C15_QuotedUnlessKeyword ==
    pc = "done" =>
        /\ NameInTable = KeywordAware(Config.TableName)
        /\ Config.TableName \notin keywords => NameInCopy = NameInTable

(***************************************************************************)
(* C16                                                                     *)
(***************************************************************************)
\* main: config.ColumnNames = strings.Split(columnNames, ","), where
\* columnNames is the text of the -columns option, "" when it is not given
ColumnsFlag(columnNames) == SplitOn(columnNames, ",")

\* the first row was read, without a header before it
FirstRowRead == ~Config.ReadHeader /\ reads >= 1 /\ err # "ReadFirstRow"

\* the names col0, col1, ... of n columns
Positional(n) == [i \in 1..n |-> ColName(i - 1)]

\* C16: run as the command without a header and without the -columns option,
\* once the first row of N fields is read there is no error and the columns
\* are named col0 .. col(N-1); and when a header is read the names are those
\* of the header, not the configured ones.
C16_PositionalNames ==
    /\ (FirstRowRead /\ Config.ColumnNames = ColumnsFlag(<<>>)) =>
          /\ err # "HeaderLength"
          /\ Len(history) >= 1
          /\ ColumnNames = Positional(Len(history[1]))
    /\ (Config.ReadHeader /\ Scanning) =>
          ColumnNames = [i \in 1..Len(reader.header) |-> snake(reader.header[i])]

\* what holds instead: with Config.ColumnNames left empty (as NewConfig leaves
\* it) the columns get the positional names, for any number of columns
C16_PositionalNamesUnset ==
    /\ (FirstRowRead /\ Config.ColumnNames = <<>>) =>
          /\ err # "HeaderLength"
          /\ Len(history) >= 1
          /\ ColumnNames = Positional(Len(history[1]))
    /\ (Config.ReadHeader /\ Scanning) =>
          ColumnNames = [i \in 1..Len(reader.header) |-> snake(reader.header[i])]

(***************************************************************************)
(* C17                                                                     *)
(***************************************************************************)
\* enum is in the set mask
HasEnum(mask) == TypeIndex(T_enum) \in TypesIn(mask)

\* C17: in every step that hands a row to handleRow, the types whose Handle
\* runs for a column are types that were in the column's set before the step;
\* and if enum was not in the set before the step, the step leaves the
\* column's enum tracker as it was and enum out of the set.
C17_NoCallAfterElimination ==
    [][ HandlesRow =>
          \A col \in DOMAIN PossibleTypes' :
              /\ \A i \in DOMAIN Config.Types :
                    Config.Types[i].Name \in lastCalls'[col] => i \in TypesIn(PossibleBefore(col))
              /\ ~HasEnum(PossibleBefore(col)) =>
                    /\ Enums'[col] = EnumsBefore(col)
                    /\ ~HasEnum(PossibleTypes'[col]) ]_vars

\* enum was eliminated for a column by too many values, and the row handled
\* last held a short valid token that is not in the tracker
C17_Witness ==
    /\ pc = "loop"
    /\ EnumEnabled
    /\ Len(history) = MaxRows
    /\ \E col \in DOMAIN PossibleTypes :
          /\ ~HasEnum(PossibleTypes[col])
          /\ ValidToken(history[MaxRows][col])
          /\ history[MaxRows][col] \notin Enums[col]
          /\ Cardinality(Enums[col]) = Config.EnumCount + 1
          /\ lastCalls[col] # {}
          /\ T_enum \notin lastCalls[col]

(***************************************************************************)
(* C18                                                                     *)
(***************************************************************************)
\* C18: in every state and for every column, the enum tracker holds at most
\* EnumCount + 1 values, at most EnumCount while enum is in the column's set,
\* and each value in it is not empty, no longer than EnumLength, and matches
\* ^[A-Za-z][A-Za-z0-9_]*$.
C18_TrackerBounded ==
    \A col \in DOMAIN Enums :
        /\ Cardinality(Enums[col]) <= Config.EnumCount + 1
        /\ HasEnum(PossibleTypes[col]) => Cardinality(Enums[col]) <= Config.EnumCount
        /\ \A v \in Enums[col] :
              /\ Len(v) > 0
              /\ Len(v) <= Config.EnumLength
              /\ v[1] \in Alpha
              /\ \A k \in 2..Len(v) : v[k] \in AlphaNum \cup {"_"}

\* a tracker one over the largest cutoff: enum is gone from the column's set
C18_Witness ==
    /\ Config.EnumCount = MaxEnumCount
    /\ \E col \in DOMAIN Enums :
          /\ Cardinality(Enums[col]) = Config.EnumCount + 1
          /\ ~HasEnum(PossibleTypes[col])

(***************************************************************************)
(* C19                                                                     *)
(***************************************************************************)
\* the field of column col was empty in every row handled
AllEmpty(col) == Len(history) >= 1 /\ ColumnValues(col) = { <<>> }

\* Config.Types[i] is the first type that is not switched off
FirstEnabled(i) == ~Excluded(i) /\ \A j \in 1..(i - 1) : Excluded(j)

\* C19: with null detection on, at the end of a run a column whose field was
\* empty in every handled row has the set it started with, is resolved to the
\* first enabled type of the catalog (so to enum or text only if that is the
\* first enabled one), and its line in the table definition has no "not null".
C19_AllEmptyColumn ==
    (pc = "done" /\ Config.NotNull) =>
        \A col \in DOMAIN ColumnNames :
            AllEmpty(col) =>
                /\ PossibleTypes[col] = allPossibleTypes(Config)
                /\ \A i \in DOMAIN Config.Types : FirstEnabled(i) => ResolvesTo(col, i)
                /\ (Len(Config.Types) = Len(DefaultTypes) /\ Config.Exclude = <<>>) =>
                      ColumnTypes[col] = T_integer
                /\ Null[col]
                /\ ~HasSuffix(ColumnText(TableDDL, col), NotNullSuffix)

\* a run of several rows with a column that was always empty, where the first
\* type of the catalog is switched off
C19_Witness ==
    /\ pc = "done"
    /\ Config.NotNull
    /\ Len(history) >= 2
    /\ Excluded(1)
    /\ \E col \in DOMAIN ColumnNames :
          /\ AllEmpty(col)
          /\ ColumnTypes[col] = T_bigint
          /\ \E other \in DOMAIN ColumnNames : ~AllEmpty(other)

(***************************************************************************)
(* C20                                                                     *)
(***************************************************************************)
\* no schema is there: no column types and no DDL
NoSchema == ColumnTypes = <<>> /\ EnumDDL = <<>> /\ TableDDL = <<>>

\* C20: a read that meets the end of the input while the header or the first
\* row is awaited ends the run with an error and without a schema; after an
\* error nothing is read any more; and a step ends the run successfully only
\* when at least one data row has been handled.
C20_EarlyEOF ==
    [][ /\ (pc \in {"header", "first"} /\ lastRead' = GotEOF /\ reads' = reads + 1) =>
              /\ pc' = "error"
              /\ err' \in {"ReadHeader", "ReadFirstRow"}
              /\ NoSchema'
              /\ history' = <<>>
        /\ pc = "error" => reads' = reads /\ pc' = "error" /\ NoSchema'
        /\ (pc # "done" /\ pc' = "done") => Len(history) >= 1 /\ history' = history ]_vars

\* the input held a header and nothing else
C20_Witness ==
    /\ pc = "error"
    /\ err = "ReadFirstRow"
    /\ Config.ReadHeader
    /\ reads = 2
    /\ lastRead = GotEOF
    /\ ColumnNames # <<>>
    /\ NoSchema

=============================================================================
